---- MODULE Spec2Model ----
(***************************************************************************)
(* MediaObserver (src/lib/core/media-observer/media-observer.ts).          *)
(*                                                                         *)
(* The observer wraps a MatchMedia watcher.  Its constructor builds the    *)
(* watch-list from the BreakPointRegistry, calls watcher.observe once and  *)
(* pipes the returned stream through                                       *)
(*     filter(change.matches) ; filter(excludeOverlaps) ; map(annotate).   *)
(* media$ is that piped observable: every subscriber runs its own copy of  *)
(* the three stages on the MediaChange object the watcher hands out, and   *)
(* the map stage assigns change.mediaQuery in place.                       *)
(*                                                                         *)
(* The registry (findByAlias, findByQuery), the watcher (observe,          *)
(* isActive) and mergeAlias are collaborators whose code lives in other    *)
(* files; they are modelled from their described contracts.                *)
(***************************************************************************)
EXTENDS Integers, Sequences, FiniteSets, TLC

\* ------------------------------------------------------------------ bounds
MaxEvents == 2          \* raw events the watcher emits in one behaviour
MaxCalls  == 2          \* isActive calls in one behaviour

\* ------------------------------------------------------------ input values
Q_SM     == "(min-width:600px)"
Q_SM_ALT == "(min-width: 600px)"      \* same query, another surface form
Q_GT_SM  == "(min-width:960px)"
PRINT    == "print"
Undefined == "<undefined>"            \* an option that is not configured

\* the canonical spelling of a raw query string (whitespace removed)
Canon(q) == IF q = Q_SM_ALT THEN Q_SM ELSE q

RegistryA ==
  << [alias |-> "sm",    mediaQuery |-> Q_SM,    overlapping |-> FALSE],
     [alias |-> "gt-sm", mediaQuery |-> Q_GT_SM, overlapping |-> TRUE] >>

\* a registry in which one breakpoint's alias is another one's query
RegistryB ==
  << [alias |-> "screen", mediaQuery |-> Q_SM,     overlapping |-> FALSE],
     [alias |-> "gt-sm",  mediaQuery |-> "screen", overlapping |-> TRUE] >>

Registries   == {RegistryA, RegistryB}
\* no print breakpoint, or the overlapping one; an alias the registry
\* lacks is an input of the life-cycle specification
PrintOptions == {Undefined, "gt-sm"}
\* raw events the watcher may emit: activations of the registered queries,
\* of an unregistered spelling and of print, and a de-activation
RawEvents ==
  [mediaQuery : {Q_SM, Q_SM_ALT, Q_GT_SM, PRINT}, matches : {TRUE}]
  \cup [mediaQuery : {Q_GT_SM}, matches : {FALSE}]
IsActiveArgs == {"sm", "gt-sm", "screen", "nope", Q_SM, Q_GT_SM}
Subs         == {"s1", "s2"}
\* what a subscriber's callback does with the flag: leave it or flip it
Callbacks    == {"keep", "flip"}

\* ------------------------------------------------------------------- state
VARIABLES
  breakpoints,          \* BreakPointRegistry.items
  printWithBreakpoint,  \* layoutConfig.printWithBreakpoint
  constructed,          \* the constructor has run
  filterOverlaps,       \* MediaObserver.filterOverlaps
  watchList,            \* the list handed to mediaWatcher.observe
  observeCalls,         \* number of mediaWatcher.observe calls
  active,               \* watcher: the queries that match right now
  subscribers,          \* subscriptions to media$, in subscription order
  emitted,              \* raw events the watcher has emitted, in order
  trace,                \* per subscriber: what its pipeline did with each event
  lastIsActive,         \* argument, forwarded query and result of the last isActive
  isActiveCalls,        \* number of mediaWatcher.isActive calls
  observeYields,        \* watcher: observe returns a stream
  failure,              \* what the constructor threw, if anything
  upstreamSubs,         \* number of subscriptions to the watcher's stream
  upstreamDone,         \* watcher: its stream has completed
  completed,            \* subscribers that were sent the completion signal
  errored               \* subscribers that were sent an error

vars == << breakpoints, printWithBreakpoint, constructed, filterOverlaps,
           watchList, observeCalls, active, subscribers, emitted, trace,
           lastIsActive, isActiveCalls, observeYields, failure, upstreamSubs,
           upstreamDone, completed, errored >>

null    == [null |-> TRUE]
NoEvent == [mediaQuery |-> "", matches |-> FALSE, mqAlias |-> ""]
NoCall  == [arg |-> "", query |-> "", result |-> FALSE]

\* ---------------------------------------------------------------- registry
\* Array.prototype.find: the first item that satisfies the test
findByAlias(alias) ==
  LET hits == {i \in 1..Len(breakpoints) : breakpoints[i].alias = alias}
  IN  IF hits = {} THEN null
      ELSE breakpoints[CHOOSE i \in hits : \A j \in hits : i <= j]

findByQuery(query) ==
  LET hits == {i \in 1..Len(breakpoints) : breakpoints[i].mediaQuery = query}
  IN  IF hits = {} THEN null
      ELSE breakpoints[CHOOSE i \in hits : \A j \in hits : i <= j]

\* ---------------------------------------------------------------- pipeline
\* variant: the activation filter lets every event through
onlyActivations_AllPass(change) == TRUE

\* filter(change => change.matches)
onlyActivations(change) == change.matches

\* variant: overlapping breakpoints are dropped whatever the flag says
excludeOverlaps_IgnoreFlag(change, fo) ==
  LET bp == findByQuery(change.mediaQuery)
  IN  IF bp = null THEN TRUE ELSE ~bp.overlapping

\* variant: the flag is taken to be off, nothing is ever dropped
excludeOverlaps_NeverDrops(change, fo) == TRUE

\* variant: a query without a registry entry is treated as overlapping
excludeOverlaps_DropsUnregistered(change, fo) ==
  LET bp == findByQuery(change.mediaQuery)
  IN  IF bp = null THEN ~fo ELSE ~(fo /\ bp.overlapping)

excludeOverlaps(change, fo) ==
  LET bp == findByQuery(change.mediaQuery)
  IN  IF bp = null THEN TRUE ELSE ~(fo /\ bp.overlapping)

\* the lookup results excludeOverlaps reads a property of:
\* !bp ? true : !(this.filterOverlaps && bp.overlapping)
excludeOverlapsReads(change, fo) ==
  LET bp == findByQuery(change.mediaQuery)
  IN  IF bp = null THEN {} ELSE IF fo THEN {bp} ELSE {}

\* variant: the map stage looks every event up by alias
mapBreakPoint_ByAlias(change) ==
  IF change.mediaQuery = PRINT
    THEN findByAlias(printWithBreakpoint)
    ELSE findByAlias(change.mediaQuery)

\* variant: a print breakpoint that is not registered falls back to the
\* first registered breakpoint
mapBreakPoint_PrintFallback(change) ==
  IF change.mediaQuery = PRINT
    THEN IF findByAlias(printWithBreakpoint) = null /\ breakpoints # << >>
           THEN breakpoints[1]
           ELSE findByAlias(printWithBreakpoint)
    ELSE findByQuery(change.mediaQuery)

\* the breakpoint the map stage annotates with
mapBreakPoint(change) ==
  IF change.mediaQuery = PRINT
    THEN findByAlias(printWithBreakpoint)
    ELSE findByQuery(change.mediaQuery)

\* variant: bp.mediaQuery is read without the if (bp) guard
mapReads_Unguarded(change) == {mapBreakPoint(change)}

\* the lookup results the map stage reads a property of:
\* if (bp) { change.mediaQuery = bp.mediaQuery; }
mapReads(change) ==
  LET bp == mapBreakPoint(change)
  IN  IF bp # null THEN {bp} ELSE {}

\* the MediaChange object after the map stage's assignment (same object)
mapAssign(change) ==
  LET bp == mapBreakPoint(change)
  IN  IF bp # null THEN [change EXCEPT !.mediaQuery = bp.mediaQuery] ELSE change

\* annotate the event with the breakpoint's alias and canonical query
mergeAlias(dest, source) ==
  IF source # null
    THEN [mediaQuery |-> source.mediaQuery, matches |-> dest.matches,
          mqAlias |-> source.alias]
    ELSE [mediaQuery |-> dest.mediaQuery, matches |-> dest.matches,
          mqAlias |-> ""]

\* a stage raises a TypeError when it reads a property of a lookup
\* result that is null; the stages run in order and stop at the first
\* filter that rejects
pipelineThrows(change, fo) ==
  /\ onlyActivations(change)
  /\ \/ null \in excludeOverlapsReads(change, fo)
     \/ excludeOverlaps(change, fo) /\ null \in mapReads(change)

\* variant: the pipe lacks the overlap filter stage
pipeline_NoOverlapFilter(change, fo) ==
  IF pipelineThrows(change, fo)
    THEN [change |-> change, delivered |-> FALSE, event |-> NoEvent,
          threw |-> TRUE]
  ELSE IF onlyActivations(change)
    THEN [change |-> mapAssign(change), delivered |-> TRUE,
          event |-> mergeAlias(mapAssign(change), mapBreakPoint(change)),
          threw |-> FALSE]
    ELSE [change |-> change, delivered |-> FALSE, event |-> NoEvent,
          threw |-> FALSE]

\* One subscriber's pipeline applied to the change object it is handed.
\* Yields the object as it is afterwards, the delivery, if any, and
\* whether a stage threw (the subscriber is then sent the error).
pipeline(change, fo) ==
  IF pipelineThrows(change, fo)
    THEN [change |-> change, delivered |-> FALSE, event |-> NoEvent,
          threw |-> TRUE]
  ELSE IF onlyActivations(change) /\ excludeOverlaps(change, fo)
    THEN [change |-> mapAssign(change), delivered |-> TRUE,
          event |-> mergeAlias(mapAssign(change), mapBreakPoint(change)),
          threw |-> FALSE]
    ELSE [change |-> change, delivered |-> FALSE, event |-> NoEvent,
          threw |-> FALSE]

\* variant: only the first subscription's pipe passes the completion on
pipeCompleted_FirstOnly(obs) ==
  IF obs = << >> THEN {} ELSE {Head(obs)}

\* filter and map pass the upstream's completion on: the subscribers that
\* are sent the completion signal when the watcher's stream completes
pipeCompleted(obs) == {obs[i] : i \in DOMAIN obs}

\* the flag after a subscriber's callback has run
afterCallback(fo, cb) ==
  IF cb = "flip" THEN ~fo ELSE fo

\* The watcher's stream hands the same MediaChange object to each of its
\* observers in subscription order; each runs its pipeline and, on a
\* delivery, its callback, before the next observer is served.
RECURSIVE dispatch(_, _, _, _, _, _)
dispatch(obs, change, fo, cb, id, tr) ==
  IF obs = << >> THEN [filterOverlaps |-> fo, trace |-> tr]
  ELSE LET s == Head(obs)
           r == pipeline(change, fo)
           rec == [id |-> id, fo |-> fo, seen |-> change.mediaQuery,
                   delivered |-> r.delivered, event |-> r.event,
                   threw |-> r.threw]
           fo2 == IF r.delivered THEN afterCallback(fo, cb[s]) ELSE fo
       IN  dispatch(Tail(obs), r.change, fo2, cb, id,
                    [tr EXCEPT ![s] = Append(@, rec)])

\* ------------------------------------------------------------ construction
RECURSIVE mapQueries(_)
mapQueries(items) ==
  IF items = << >> THEN << >>
  ELSE << Head(items).mediaQuery >> \o mapQueries(Tail(items))

\* variant: 'print' is watched whether or not it is configured
addPrintListener_Always(queries) == Append(queries, PRINT)

\* queries.push('print') when layoutConfig.printWithBreakpoint is truthy
addPrintListener(queries) ==
  IF printWithBreakpoint # Undefined /\ printWithBreakpoint # ""
    THEN Append(queries, PRINT)
    ELSE queries

watchActivations == addPrintListener(mapQueries(breakpoints))

\* variant: the queries list is the registry's items array itself, so the
\* push of 'print' lands in the registry
itemsAfterWatch_Aliased(items) ==
  IF printWithBreakpoint # Undefined /\ printWithBreakpoint # ""
    THEN Append(items, [alias |-> "", mediaQuery |-> PRINT,
                        overlapping |-> FALSE])
    ELSE items

\* the registry's items after watchActivations: items.map returns a new
\* array, the push of 'print' goes to that array and items are as before
itemsAfterWatch(items) == items

\* variant: the value observe returned is only used at the first subscribe
constructOutcome_Deferred(yields) == "ok"

\* the constructor calls .pipe on the value observe returned; on a value
\* that is no stream the call raises a TypeError
constructOutcome(yields) == IF yields THEN "ok" ELSE "TypeError"

\* variant: the query lookup is tried before the alias lookup
toMediaQuery_QueryFirst(query) ==
  LET byQuery == findByQuery(query)
      bp == IF byQuery # null THEN byQuery ELSE findByAlias(query)
  IN  IF bp # null THEN bp.mediaQuery ELSE query

\* resolve an alias or query to the query the watcher is asked about
toMediaQuery(query) ==
  LET byAlias == findByAlias(query)
      bp == IF byAlias # null THEN byAlias ELSE findByQuery(query)
  IN  IF bp # null THEN bp.mediaQuery ELSE query

\* watcher.isActive
watcherIsActive(query) == query \in active

\* -------------------------------------------------------------------- Init
Init ==
  /\ breakpoints = RegistryA
  /\ printWithBreakpoint \in PrintOptions
  /\ constructed = FALSE
  /\ filterOverlaps = TRUE
  /\ watchList = << >>
  /\ observeCalls = 0
  /\ active = {}
  /\ subscribers = << >>
  /\ emitted = << >>
  /\ trace = [s \in Subs |-> << >>]
  /\ lastIsActive = NoCall
  /\ isActiveCalls = 0
  /\ observeYields = TRUE
  /\ failure = "none"
  /\ upstreamSubs = 0
  /\ upstreamDone = FALSE
  /\ completed = {}
  /\ errored = {}

\* ----------------------------------------------------------------- actions
\* new MediaObserver(breakpoints, mediaWatcher, layoutConfig)
Construct ==
  /\ ~constructed
  /\ failure = "none"
  /\ watchList' = watchActivations
  /\ observeCalls' = observeCalls + 1
  /\ breakpoints' = itemsAfterWatch(breakpoints)
  /\ constructed' = (constructOutcome(observeYields) = "ok")
  /\ failure' = IF constructOutcome(observeYields) = "ok"
                  THEN "none" ELSE constructOutcome(observeYields)
  /\ UNCHANGED << printWithBreakpoint, filterOverlaps, active,
                  subscribers, emitted, trace, lastIsActive, isActiveCalls,
                  observeYields, upstreamSubs, upstreamDone, completed,
                  errored >>

\* mediaObserver.filterOverlaps = b
SetFilterOverlaps(b) ==
  /\ constructed
  /\ filterOverlaps' = b
  /\ UNCHANGED << breakpoints, printWithBreakpoint, constructed, watchList,
                  observeCalls, active, subscribers, emitted, trace,
                  lastIsActive, isActiveCalls, observeYields, failure,
                  upstreamSubs, upstreamDone, completed, errored >>

\* mediaObserver.media$.subscribe(callback)
\* variant: media$ is shared, later subscribers reuse the first one's
\* subscription to the watcher's stream
Subscribe_Shared(s) ==
  /\ constructed
  /\ \A i \in 1..Len(subscribers) : subscribers[i] # s
  /\ IF upstreamDone
       THEN /\ completed' = completed \cup {s}
            /\ UNCHANGED << subscribers, upstreamSubs >>
       ELSE /\ subscribers' = Append(subscribers, s)
            /\ upstreamSubs' = 1
            /\ UNCHANGED completed
  /\ UNCHANGED << breakpoints, printWithBreakpoint, constructed,
                  filterOverlaps, watchList, observeCalls, active, emitted,
                  trace, lastIsActive, isActiveCalls, observeYields, failure,
                  upstreamDone, errored >>

\* Each subscription to media$ subscribes its own pipe to the watcher's
\* stream; a stream that has completed completes the newcomer at once.
Subscribe(s) ==
  /\ constructed
  /\ \A i \in 1..Len(subscribers) : subscribers[i] # s
  /\ IF upstreamDone
       THEN /\ completed' = completed \cup {s}
            /\ UNCHANGED << subscribers, upstreamSubs >>
       ELSE /\ subscribers' = Append(subscribers, s)
            /\ upstreamSubs' = upstreamSubs + 1
            /\ UNCHANGED completed
  /\ UNCHANGED << breakpoints, printWithBreakpoint, constructed,
                  filterOverlaps, watchList, observeCalls, active, emitted,
                  trace, lastIsActive, isActiveCalls, observeYields, failure,
                  upstreamDone, errored >>

\* subscription.unsubscribe()
Unsubscribe(s) ==
  /\ constructed
  /\ subscribers' = SelectSeq(subscribers, LAMBDA x : x # s)
  /\ upstreamSubs' = upstreamSubs - (Len(subscribers) - Len(subscribers'))
  /\ UNCHANGED << breakpoints, printWithBreakpoint, constructed,
                  filterOverlaps, watchList, observeCalls, active, emitted,
                  trace, lastIsActive, isActiveCalls, observeYields, failure,
                  upstreamDone, completed, errored >>

\* the watcher reports that query now matches / no longer matches
Emit(raw, cb) ==
  /\ constructed
  /\ ~upstreamDone
  /\ Len(emitted) < MaxEvents
  /\ \E r \in {dispatch(subscribers, raw, filterOverlaps, cb,
                        Len(emitted) + 1, trace)} :
       /\ emitted' = Append(emitted, raw)
       /\ active' = IF raw.matches THEN active \cup {raw.mediaQuery}
                                 ELSE active \ {raw.mediaQuery}
       /\ filterOverlaps' = r.filterOverlaps
       /\ trace' = r.trace
       \* the subscriptions whose pipe threw are sent the error and closed
       /\ \E thrown \in {{subscribers[i] : i \in
                            {j \in DOMAIN subscribers :
                               LET t == r.trace[subscribers[j]]
                               IN  t[Len(t)].threw}}} :
            /\ errored' = errored \cup thrown
            /\ subscribers' = SelectSeq(subscribers,
                                        LAMBDA x : x \notin thrown)
            /\ upstreamSubs' = upstreamSubs - Cardinality(thrown)
  /\ UNCHANGED << breakpoints, printWithBreakpoint, constructed, watchList,
                  observeCalls, lastIsActive, isActiveCalls, observeYields,
                  failure, upstreamDone, completed >>

\* the watcher's stream completes
Complete ==
  /\ constructed
  /\ ~upstreamDone
  /\ upstreamDone' = TRUE
  /\ completed' = completed \cup pipeCompleted(subscribers)
  /\ subscribers' = << >>
  /\ upstreamSubs' = 0
  /\ UNCHANGED << breakpoints, printWithBreakpoint, constructed,
                  filterOverlaps, watchList, observeCalls, active, emitted,
                  trace, lastIsActive, isActiveCalls, observeYields, failure,
                  errored >>

\* variant: the watcher is asked about the argument and about the query
\* it resolves to
IsActive_AsksTwice(alias) ==
  /\ constructed
  /\ isActiveCalls < MaxCalls
  /\ lastIsActive' = [arg |-> alias, query |-> toMediaQuery(alias),
                      result |-> \/ watcherIsActive(alias)
                                 \/ watcherIsActive(toMediaQuery(alias))]
  /\ isActiveCalls' = isActiveCalls + 2
  /\ UNCHANGED << breakpoints, printWithBreakpoint, constructed,
                  filterOverlaps, watchList, observeCalls, active,
                  subscribers, emitted, trace, observeYields, failure,
                  upstreamSubs, upstreamDone, completed, errored >>

\* mediaObserver.isActive(alias)
IsActive(alias) ==
  /\ constructed
  /\ isActiveCalls < MaxCalls
  /\ lastIsActive' = [arg |-> alias, query |-> toMediaQuery(alias),
                      result |-> watcherIsActive(toMediaQuery(alias))]
  /\ isActiveCalls' = isActiveCalls + 1
  /\ UNCHANGED << breakpoints, printWithBreakpoint, constructed,
                  filterOverlaps, watchList, observeCalls, active,
                  subscribers, emitted, trace, observeYields, failure,
                  upstreamSubs, upstreamDone, completed, errored >>

Next ==
  \/ Construct
  \/ \E b \in BOOLEAN : SetFilterOverlaps(b)
  \/ \E s \in Subs : Subscribe(s)
  \/ \E s \in Subs : Unsubscribe(s)
  \/ \E raw \in RawEvents, cb \in [Subs -> Callbacks] : Emit(raw, cb)

Spec == Init /\ [][Next]_vars

\* The synchronous query, exercised against a watcher whose match state
\* changes between calls, over registries with and without an alias that
\* is also a query string.
InitQuery ==
  /\ breakpoints \in Registries
  /\ printWithBreakpoint = Undefined
  /\ constructed = FALSE
  /\ filterOverlaps = TRUE
  /\ watchList = << >>
  /\ observeCalls = 0
  /\ active = {}
  /\ subscribers = << >>
  /\ emitted = << >>
  /\ trace = [s \in Subs |-> << >>]
  /\ lastIsActive = NoCall
  /\ isActiveCalls = 0
  /\ observeYields = TRUE
  /\ failure = "none"
  /\ upstreamSubs = 0
  /\ upstreamDone = FALSE
  /\ completed = {}
  /\ errored = {}

NextQuery ==
  \/ Construct
  \/ \E s \in Subs : Subscribe(s)
  \/ \E raw \in RawEvents : Emit(raw, [s \in Subs |-> "keep"])
  \/ \E a \in IsActiveArgs : IsActive(a)

SpecQuery == InitQuery /\ [][NextQuery]_vars

\* The life cycle: a watcher that may fail to supply a stream, a stream
\* that may complete, and raw events that include an empty query string.
RawEventsLife ==
  [mediaQuery : {Q_SM, Q_GT_SM, PRINT, ""}, matches : {TRUE}]
  \cup [mediaQuery : {Q_GT_SM}, matches : {FALSE}]

InitLife ==
  /\ breakpoints = RegistryA
  /\ printWithBreakpoint \in {Undefined, "gt-sm", "nope"}
  /\ constructed = FALSE
  /\ filterOverlaps = TRUE
  /\ watchList = << >>
  /\ observeCalls = 0
  /\ active = {}
  /\ subscribers = << >>
  /\ emitted = << >>
  /\ trace = [s \in Subs |-> << >>]
  /\ lastIsActive = NoCall
  /\ isActiveCalls = 0
  /\ observeYields \in BOOLEAN
  /\ failure = "none"
  /\ upstreamSubs = 0
  /\ upstreamDone = FALSE
  /\ completed = {}
  /\ errored = {}

NextLife ==
  \/ Construct
  \/ \E b \in BOOLEAN : SetFilterOverlaps(b)
  \/ \E s \in Subs : Subscribe(s)
  \/ \E s \in Subs : Unsubscribe(s)
  \/ \E raw \in RawEventsLife : Emit(raw, [s \in Subs |-> "keep"])
  \/ Complete

SpecLife == InitLife /\ [][NextLife]_vars

TypeOK ==
  /\ constructed \in BOOLEAN
  /\ filterOverlaps \in BOOLEAN
  /\ Len(emitted) <= MaxEvents
  /\ isActiveCalls <= MaxCalls

\* ------------------------------------------------- vocabulary of the claims
BpSet == {breakpoints[i] : i \in DOMAIN breakpoints}
\* the raw event a processing record belongs to
Raw(r) == emitted[r.id]
Recs(s) == {trace[s][i] : i \in DOMAIN trace[s]}
IsPrefix(a, b) ==
  /\ Len(a) <= Len(b)
  /\ \A i \in DOMAIN a : a[i] = b[i]
PrintConfigured == printWithBreakpoint \notin {Undefined, ""}

\* C1 - activation-only: every event handed to a subscriber of media$ has
\* matches = true, and no subscriber is handed anything for a raw event
\* with matches = false.
C1_ActivationOnly ==
  \A s \in Subs : \A r \in Recs(s) :
    /\ r.delivered => r.event.matches = TRUE
    /\ ~Raw(r).matches => ~r.delivered

\* a subscriber has been through a de-activation and through a delivery
C1_Witness ==
  \E s \in Subs : \E r1, r2 \in Recs(s) :
    /\ ~Raw(r1).matches /\ ~r1.delivered
    /\ Raw(r2).matches /\ r2.delivered

\* C2 - overlap suppression: a raw activation of the query of a breakpoint
\* registered with overlapping = true gives a subscriber no event when
\* filterOverlaps is true as the event is processed, and exactly one event,
\* carrying that breakpoint's alias, when filterOverlaps is false.
C2_OverlapSuppression ==
  \A s \in Subs : \A i \in DOMAIN trace[s] : \A B \in BpSet :
    LET r == trace[s][i] IN
    (B.overlapping /\ Raw(r).matches /\ Raw(r).mediaQuery = B.mediaQuery)
      => IF r.fo
           THEN ~r.delivered
           ELSE /\ r.delivered
                /\ r.event.mqAlias = B.alias
                /\ \A j \in DOMAIN trace[s] : j # i => trace[s][j].id # r.id

\* the same overlapping query was suppressed and, after the flag was
\* cleared, activated again and delivered
C2_Witness ==
  \E s \in Subs : \E i, j \in DOMAIN trace[s] : \E B \in BpSet :
    /\ i < j /\ B.overlapping
    /\ Raw(trace[s][i]) = [mediaQuery |-> B.mediaQuery, matches |-> TRUE]
    /\ Raw(trace[s][j]) = [mediaQuery |-> B.mediaQuery, matches |-> TRUE]
    /\ trace[s][i].fo /\ ~trace[s][i].delivered
    /\ ~trace[s][j].fo /\ trace[s][j].delivered
    /\ trace[s][j].event.mqAlias = B.alias

\* C3 as stated - alias injection whatever the surface form: a raw
\* activation whose query is breakpoint B's query in any spelling (and that
\* the overlap filter does not suppress) is delivered with B's alias and
\* B's canonical query string.
C3_AnySurfaceForm ==
  \A s \in Subs : \A r \in Recs(s) : \A B \in BpSet :
    (/\ Raw(r).matches
     /\ Canon(Raw(r).mediaQuery) = B.mediaQuery
     /\ ~(B.overlapping /\ r.fo))
      => /\ r.delivered
         /\ r.event.mqAlias = B.alias
         /\ r.event.mediaQuery = B.mediaQuery

\* C3 - alias injection: a raw activation whose query string is exactly
\* breakpoint B's registered query (and that the overlap filter does not
\* suppress) is delivered with B's alias and B's query string.
C3_ExactQueryAlias ==
  \A s \in Subs : \A r \in Recs(s) : \A B \in BpSet :
    (/\ Raw(r).matches
     /\ Raw(r).mediaQuery = B.mediaQuery
     /\ ~(B.overlapping /\ r.fo))
      => /\ r.delivered
         /\ r.event.mqAlias = B.alias
         /\ r.event.mediaQuery = B.mediaQuery

\* a plain and an overlapping breakpoint have both been announced
C3_Witness ==
  \E s \in Subs : \E r1, r2 \in Recs(s) :
    /\ Raw(r1) = [mediaQuery |-> Q_SM, matches |-> TRUE]
    /\ r1.delivered /\ r1.event.mqAlias = "sm"
    /\ Raw(r2) = [mediaQuery |-> Q_GT_SM, matches |-> TRUE]
    /\ r2.delivered /\ r2.event.mqAlias = "gt-sm"

\* C4 - unregistered passthrough: a raw activation of a query that has no
\* registry entry (the literal 'print' with a print breakpoint configured
\* aside) is delivered to every subscriber that processes it, whatever
\* filterOverlaps is, exactly once, with an empty alias and the query
\* string unchanged.
C4_UnregisteredPassthrough ==
  \A s \in Subs : \A i \in DOMAIN trace[s] :
    LET r == trace[s][i] IN
    (/\ Raw(r).matches
     /\ \A B \in BpSet : B.mediaQuery # Raw(r).mediaQuery
     /\ ~(Raw(r).mediaQuery = PRINT /\ PrintConfigured))
      => /\ r.delivered
         /\ r.event.mqAlias = ""
         /\ r.event.mediaQuery = Raw(r).mediaQuery
         /\ \A j \in DOMAIN trace[s] : j # i => trace[s][j].id # r.id

\* an unregistered query went through with the flag on and with it off
C4_Witness ==
  \E s \in Subs : \E r1, r2 \in Recs(s) :
    /\ Raw(r1) = [mediaQuery |-> Q_SM_ALT, matches |-> TRUE]
    /\ Raw(r2) = [mediaQuery |-> Q_SM_ALT, matches |-> TRUE]
    /\ r1.fo /\ r1.delivered /\ r1.event.mqAlias = ""
    /\ ~r2.fo /\ r2.delivered /\ r2.event.mediaQuery = Q_SM_ALT

\* C5 - print substitution: when printWithBreakpoint names the alias of a
\* registered breakpoint B, a raw activation of 'print' is delivered to
\* every subscriber that processes it, with B's query and B's alias.
C5_PrintSubstitution ==
  \A s \in Subs : \A r \in Recs(s) : \A B \in BpSet :
    (/\ Raw(r) = [mediaQuery |-> PRINT, matches |-> TRUE]
     /\ B.alias = printWithBreakpoint)
      => /\ r.delivered
         /\ r.event.mediaQuery = B.mediaQuery
         /\ r.event.mqAlias = B.alias

\* the query isActive is to forward: by alias first, then by query, else
\* the argument itself
ResolveQuery(a) ==
  IF \E B \in BpSet : B.alias = a
    THEN (CHOOSE B \in BpSet : B.alias = a).mediaQuery
    ELSE IF \E B \in BpSet : B.mediaQuery = a
           THEN (CHOOSE B \in BpSet : B.mediaQuery = a).mediaQuery
           ELSE a

\* C6 - isActive consistency: every isActive(a) call returns the boolean
\* the watcher gives, at the moment of the call, for the query a resolves
\* to (breakpoint by alias, else breakpoint by query, else a itself).
C6_IsActiveConsistent ==
  [][isActiveCalls' # isActiveCalls =>
       /\ lastIsActive'.result \in BOOLEAN
       /\ lastIsActive'.query = ResolveQuery(lastIsActive'.arg)
       /\ lastIsActive'.result = (ResolveQuery(lastIsActive'.arg) \in active)
    ]_vars

\* a second call, for an alias that is also another breakpoint's query,
\* answered from the watcher's present state of the alias's own query
C6_Witness ==
  /\ isActiveCalls = 2
  /\ breakpoints = RegistryB
  /\ lastIsActive.arg = "screen"
  /\ lastIsActive.query = Q_SM
  /\ lastIsActive.result = TRUE
  /\ "screen" \notin active

\* C7 - multicast consistency: for every raw event, the subscribers that
\* process it either all receive an event or none does, and the events
\* they receive are equal.
C7_MulticastConsistent ==
  \A s1, s2 \in Subs : \A r1 \in Recs(s1) : \A r2 \in Recs(s2) :
    r1.id = r2.id => /\ r1.delivered = r2.delivered
                     /\ r1.event = r2.event

\* C8 - watch-list: watcher.observe is called once, by the constructor,
\* with the registry's queries in registry order followed by 'print' if and
\* only if printWithBreakpoint is configured, and never again.
C8_WatchList ==
  /\ ~constructed => observeCalls = 0
  /\ constructed =>
       /\ observeCalls = 1
       /\ Len(watchList) = Len(breakpoints) + (IF PrintConfigured THEN 1 ELSE 0)
       /\ \A i \in DOMAIN breakpoints : watchList[i] = breakpoints[i].mediaQuery
       /\ PrintConfigured => watchList[Len(watchList)] = PRINT

\* print is configured and subscriptions, events and a toggle have followed
\* the construction
C8_Witness ==
  /\ constructed
  /\ printWithBreakpoint = "gt-sm"
  /\ watchList = << Q_SM, Q_GT_SM, PRINT >>
  /\ Len(subscribers) = 2
  /\ Len(emitted) = 2
  /\ ~filterOverlaps

C10_ReadAtProcessing ==
  [][/\ \A s \in Subs : IsPrefix(trace[s], trace'[s])
     /\ emitted' = emitted => trace' = trace
     /\ (emitted' # emitted /\ subscribers # << >>) =>
          LET s == Head(subscribers)
          IN  trace'[s][Len(trace'[s])].fo = filterOverlaps
     /\ \A s \in Subs : \A i \in DOMAIN trace'[s] : \A B \in BpSet :
          LET r == trace'[s][i] IN
          (B.overlapping /\ emitted'[r.id].matches
             /\ emitted'[r.id].mediaQuery = B.mediaQuery)
            => (r.delivered <=> ~r.fo)
    ]_vars

\* the flag was cleared after construction and set again later: the same
\* overlapping query was first delivered and then dropped
C10_Witness ==
  \E s \in Subs : \E i, j \in DOMAIN trace[s] : \E B \in BpSet :
    /\ i < j /\ B.overlapping
    /\ Raw(trace[s][i]) = [mediaQuery |-> B.mediaQuery, matches |-> TRUE]
    /\ Raw(trace[s][j]) = [mediaQuery |-> B.mediaQuery, matches |-> TRUE]
    /\ ~trace[s][i].fo /\ trace[s][i].delivered
    /\ trace[s][j].fo /\ ~trace[s][j].delivered

\* C11 - missing print breakpoint: with printWithBreakpoint set to an alias
\* the registry does not have, a raw activation of 'print' is delivered to
\* every subscriber that processes it, exactly once, with the query 'print'
\* unchanged and an empty alias, and nothing is thrown.
C11_MissingPrintBreakpoint ==
  \A s \in Subs : \A i \in DOMAIN trace[s] :
    LET r == trace[s][i] IN
    (/\ PrintConfigured
     /\ \A B \in BpSet : B.alias # printWithBreakpoint
     /\ Raw(r) = [mediaQuery |-> PRINT, matches |-> TRUE])
      => /\ r.delivered
         /\ r.event.mediaQuery = PRINT
         /\ r.event.mqAlias = ""
         /\ ~r.threw
         /\ s \notin errored
         /\ \A j \in DOMAIN trace[s] : j # i => trace[s][j].id # r.id

\* both subscribers were handed a print event although the configured
\* alias is not registered
C11_Witness ==
  /\ printWithBreakpoint = "nope"
  /\ \A s \in Subs : \E r \in Recs(s) :
       /\ Raw(r) = [mediaQuery |-> PRINT, matches |-> TRUE]
       /\ r.delivered /\ r.event.mediaQuery = PRINT

\* C12 as stated - single shared upstream subscription: however many
\* subscribers media$ has, the watcher's stream has at most one
\* subscription.
C12_SingleUpstream == upstreamSubs <= 1

\* C12 - the watcher is asked for its stream once and that one stream is
\* shared, but every subscriber of media$ holds its own subscription to
\* it: the stream has as many subscriptions as media$ has subscribers.
C12_OneUpstreamPerSubscriber ==
  /\ observeCalls <= 1
  /\ upstreamSubs = Len(subscribers)

\* two subscribers, two subscriptions to the stream of the one observe call
C12_Witness ==
  /\ Len(subscribers) = 2
  /\ upstreamSubs = 2
  /\ observeCalls = 1

Range(seq) == {seq[i] : i \in DOMAIN seq}

\* C13 - cancellation: a subscriber that is not subscribed is handed
\* nothing; an unsubscribe removes that one subscription and touches
\* nothing else; and what a subscriber is handed for a raw event, given the
\* flag at that moment, is the same whether or not others are subscribed.
C13_Cancellation ==
  [][/\ \A s \in Subs : s \notin Range(subscribers) => trace'[s] = trace[s]
     /\ (Len(subscribers') < Len(subscribers) /\ emitted' = emitted
           /\ upstreamDone' = upstreamDone) =>
          /\ trace' = trace
          /\ filterOverlaps' = filterOverlaps
          /\ \E s \in Subs :
               subscribers' = SelectSeq(subscribers, LAMBDA x : x # s)
     /\ \A s \in Subs : \A r1, r2 \in {trace'[s][i] : i \in DOMAIN trace'[s]} :
          (emitted'[r1.id] = emitted'[r2.id] /\ r1.fo = r2.fo)
            => (r1.delivered = r2.delivered /\ r1.event = r2.event)
    ]_vars

\* C14 - completion: a subscriber is sent the completion signal only once
\* the watcher's stream has completed; when the stream completes, every
\* subscriber subscribed at that moment is sent it; no raw event and no
\* toggle completes anything.
C14_Completion ==
  [][/\ completed' # completed => upstreamDone'
     /\ (~upstreamDone /\ upstreamDone') =>
          \A s \in Range(subscribers) : s \in completed'
     /\ (emitted' # emitted \/ filterOverlaps' # filterOverlaps) =>
          (completed' = completed /\ upstreamDone' = upstreamDone)
    ]_vars

\* the stream completed after two events; s1 was subscribed and was
\* completed, s2 had processed an event, had unsubscribed and was not
C14_Witness ==
  /\ upstreamDone
  /\ completed = {"s1"}
  /\ Len(emitted) = 2
  /\ trace["s1"] # << >>
  /\ trace["s2"] # << >>

\* a query the registry cannot resolve, as the subscriber's pipe sees it
Unresolved(q) ==
  /\ \A B \in BpSet : B.mediaQuery # q
  /\ q = PRINT => \A B \in BpSet : B.alias # printWithBreakpoint

\* C15 - totality: no raw event makes a pipe throw or sends an error to a
\* subscriber, and an activation whose query the registry cannot resolve
\* (unregistered, empty, 'print' without a registered print breakpoint) is
\* passed through with its query unchanged and an empty alias.
C15_Totality ==
  /\ errored = {}
  /\ \A s \in Subs : \A r \in Recs(s) :
       /\ ~r.threw
       /\ (Raw(r).matches /\ Unresolved(r.seen)) =>
            /\ r.delivered
            /\ r.event.mediaQuery = r.seen
            /\ r.event.mqAlias = ""

\* a subscriber has been through an empty query and through 'print' with
\* no print breakpoint configured
C15_Witness ==
  /\ printWithBreakpoint = Undefined
  /\ \E s \in Subs : \E r1, r2 \in Recs(s) :
       /\ Raw(r1) = [mediaQuery |-> "", matches |-> TRUE] /\ r1.delivered
       /\ Raw(r2) = [mediaQuery |-> PRINT, matches |-> TRUE] /\ r2.delivered

\* C16 as stated - construction failure: when observe yields no stream the
\* constructor ends in a ConfigurationError and there is no instance.
C16_ConfigurationError ==
  (~observeYields /\ observeCalls > 0) =>
     (failure = "ConfigurationError" /\ ~constructed)

\* C16 - construction failure: when observe yields no stream the
\* constructor ends, at construction time, in the TypeError of calling
\* pipe on the missing stream; there is no instance, so nothing subscribes
\* and no event is processed; an instance exists only over a stream.
C16_ConstructionFails ==
  /\ (~observeYields /\ observeCalls > 0) =>
       /\ failure = "TypeError"
       /\ ~constructed
       /\ subscribers = << >> /\ emitted = << >> /\ errored = {}
  /\ constructed => (observeYields /\ failure = "none")

\* the constructor has run against a watcher that supplies no stream
C16_Witness ==
  /\ ~observeYields
  /\ observeCalls = 1
  /\ failure = "TypeError"

\* C17 - no event handed to a subscriber carries the alias or the query of
\* a breakpoint registered with overlapping = true if filterOverlaps was
\* true as the event was processed, 'print' events included.
C17_NoOverlappingAliasWhenFiltering ==
  \A s \in Subs : \A r \in Recs(s) : \A B \in BpSet :
    (r.delivered /\ r.fo /\ B.overlapping)
      => (r.event.mqAlias # B.alias /\ r.event.mediaQuery # B.mediaQuery)

\* C18 - the registry is left alone: no step changes its items, and the
\* 'print' that the constructor appends to the watch-list is no entry of
\* the registry.
C18_RegistryUnchanged ==
  [][/\ breakpoints' = breakpoints
     /\ \A B \in {breakpoints'[i] : i \in DOMAIN breakpoints'} :
          B.mediaQuery # PRINT
    ]_vars

\* 'print' is on the watch-list, events have been processed and the
\* registry is the one the service was given
C18_Witness ==
  /\ constructed
  /\ PrintConfigured
  /\ watchList = << Q_SM, Q_GT_SM, PRINT >>
  /\ breakpoints = RegistryA
  /\ Len(emitted) = 2
  /\ subscribers # << >>

\* C19 - isActive is a pure query: a call asks the watcher exactly once and
\* leaves the flag, the watch-list, the registry, the subscribers and what
\* they have been handed as they were.
C19_IsActivePure ==
  [][(isActiveCalls' # isActiveCalls \/ lastIsActive' # lastIsActive) =>
       /\ isActiveCalls' = isActiveCalls + 1
       /\ filterOverlaps' = filterOverlaps
       /\ watchList' = watchList
       /\ breakpoints' = breakpoints
       /\ subscribers' = subscribers
       /\ upstreamSubs' = upstreamSubs
       /\ trace' = trace
       /\ emitted' = emitted
       /\ observeCalls' = observeCalls
    ]_vars

\* isActive has been called on a service with two subscribers that have
\* been handed events
C19_Witness ==
  /\ isActiveCalls = 2
  /\ Len(subscribers) = 2
  /\ \A s \in Subs : \E r \in Recs(s) : r.delivered
  /\ lastIsActive.result = TRUE

====
